---- MODULE Spec2Model ----
(***************************************************************************)
(* Model of the jigsaw genetic algorithm of                                *)
(* week-4/Group-D-Jigsaw-20By20/backend/main.py.                           *)
(*                                                                         *)
(* A tile is one pixel of one channel, so an edge of a tile is that pixel. *)
(* Fitness values are kept as exact integers scaled by 255:                *)
(*   255 * (1 - |a - b| / 255) = 255 - |a - b|                             *)
(* Python lists are 0-based; the sequences here are 1-based, so Python     *)
(* index i is position i + 1.  Gene values (tile ids) stay 0-based.        *)
(***************************************************************************)
EXTENDS Integers, Sequences, FiniteSets, TLC

\* ------------------------------------------------------------------ bounds
\* largest population_size drawn
MaxPop == 3
\* largest generations drawn
MaxGen == 3
\* largest difference drawn between the pixels of two successive tiles
MaxStep == 1
\* most passes of the reproduction loop in one generation of a run drawn from
\* its call on
MaxChildren == 1
\* most inversions of an outcome of random.shuffle
MaxDisorder == 1
\* most positions of one child at which random.random() < mutation_rate
MaxSwaps == 1
\* largest chromosome length drawn for a call of crossover on its own
MaxLen == 4
\* largest generations drawn for the runs checked for termination
MaxFairGen == 2
\* the generations of the runs drawn without elite
MaxNoEliteGen == 2
\* largest grid_size drawn for a call of calculate_fitness or assemble_image
\* on its own
MaxGrid == 3
\* largest width and height, in pixels, of a tile drawn for assemble_image
MaxTile == 2

\* the grid sizes drawn (N = grid_size^2 tiles)
GridSizes == {-1, 0, 1, 2}
\* the stagnation thresholds drawn
Thresholds == {1, 2}

\* ------------------------------------------------------- program constants
\* the divisor of compare_edges, and the scale of every fitness value here
PixelMax == 255
\* the bonus per correctly placed tile, in calculate_fitness
PositionBonus == 5
\* k of tournament_selection
TournamentK == 3
\* float('-inf'): below every fitness (fitness values are >= 0)
NegInf == -1
\* None, as the value of global_best_chromo before the first generation
NoChromo == <<-1>>
\* the outcome of crossover when parent2 is indexed past its end
IndexError == <<-2>>
\* a gene of the child that crossover has not filled yet
NoGene == -1

VARIABLES
    image,                \* the uploaded image: rows of pixels
    grid_size,
    population_size,
    generations,
    elite_count,
    stagnation_threshold,
    pieces,               \* split_image's pieces, a sequence of tiles
    original_sequence,    \* split_image's original_sequence
    population,
    fitnesses,            \* of the generation's evaluation (line 93)
    correct_counts,       \* of the generation's evaluation (line 94)
    best_index,           \* np.argmax(fitnesses), as a 1-based position
    global_best_chromo,
    global_best_fitness,
    stagnation_counter,
    best_solutions,       \* the snapshots
    new_population,
    generation,           \* the loop variable of line 90
    pc,                   \* where the run is
    err,                  \* the exception that ended the run, or "none"
    xo,                   \* a call of crossover on its own
    assembled_image       \* assemble_image's result

vars == <<image, grid_size, population_size, generations, elite_count,
          stagnation_threshold, pieces, original_sequence, population,
          fitnesses, correct_counts, best_index, global_best_chromo,
          global_best_fitness, stagnation_counter, best_solutions,
          new_population, generation, pc, err, xo, assembled_image>>

config == <<image, grid_size, population_size, generations, elite_count,
            stagnation_threshold>>

\* ----------------------------------------------------------------- helpers
Abs(x) == IF x < 0 THEN -x ELSE x

Range(s) == {s[i] : i \in 1..Len(s)}

\* range(n) of Python
PyRange(n) == 0..(n - 1)

\* the permutations of 0..n-1, as sequences
Perms(n) == {s \in [1..n -> 0..(n - 1)] :
                \A i, j \in 1..n : i # j => s[i] # s[j]}

IsPermutation(c, n) == /\ Len(c) = n
                       /\ \A g \in 0..(n - 1) : \E i \in 1..n : c[i] = g

\* the sum of a sequence of numbers
SumSeq(s) == LET Sum[k \in 0..Len(s)] == IF k = 0 THEN 0 ELSE Sum[k - 1] + s[k]
             IN  Sum[Len(s)]

\* Python's floor division
FloorDiv(a, b) == IF b > 0 THEN a \div b ELSE (-a) \div (-b)

\* the images drawn for a grid size: one pixel per tile, the pixels rising by
\* step from tile to tile in row-major order (step 0: a uniform image)
Images(g) == LET side == IF g > 0 THEN g ELSE 1
             IN  {[r \in 1..side |-> [c \in 1..side |-> ((r - 1) * side + (c - 1)) * step]] :
                     step \in 0..MaxStep}

\* ------------------------------------------------------------- split_image
Width(img) == IF img = <<>> THEN 0 ELSE Len(img[1])
Height(img) == Len(img)

\* image.crop((left, upper, right, lower)), 0-based pixel coordinates
Crop(img, left, upper, right, lower) ==
    [r \in 1..(lower - upper) |-> [c \in 1..(right - left) |->
        img[upper + r][left + c]]]

\* image.resize((w, h)): every image drawn already has these dimensions, and
\* resizing to the same dimensions changes no pixel
Resize(img, w, h) == img

\* split_image: the pieces and original_sequence, row-major
SplitImage(img, g) ==
    LET piece_width  == FloorDiv(Width(img), g)
        piece_height == FloorDiv(Height(img), g)
        resized == Resize(img, piece_width * g, piece_height * g)
        n == IF g > 0 THEN g * g ELSE 0
        Row(k) == (k - 1) \div g
        Col(k) == (k - 1) % g
    IN  [pieces |-> [k \in 1..n |->
                        Crop(resized, Col(k) * piece_width, Row(k) * piece_height,
                             (Col(k) + 1) * piece_width, (Row(k) + 1) * piece_height)],
         original_sequence |-> [k \in 1..n |-> Row(k) * g + Col(k)]]

\* -------------------------------------------------------- create_chromosome
\* the number of pairs of positions of c that are out of order
Inversions(c) == Cardinality({q \in (1..Len(c)) \X (1..Len(c)) :
                                q[1] < q[2] /\ c[q[1]] > c[q[2]]})

\* the outcomes of list(range(len(pieces))) shuffled, among those drawn
CreateChromosome(ps) == {c \in Perms(Len(ps)) : Inversions(c) <= MaxDisorder}

\* ----------------------------------------------------------- compare_edges
\* 255 * (1 - mean(|edge1 - edge2|) / 255); the edges of the tiles drawn are
\* one pixel long, so the mean is that pixel's difference
CompareEdges(piece1, piece2, direction) ==
    LET h == Len(piece1)
        w == Len(piece1[1])
        edge1 == IF direction = "right"
                 THEN [r \in 1..h |-> piece1[r][w]]
                 ELSE piece1[h]
        edge2 == IF direction = "right"
                 THEN [r \in 1..h |-> piece2[r][1]]
                 ELSE piece2[1]
        n == Len(edge1)
        diff == SumSeq([k \in 1..n |-> Abs(edge1[k] - edge2[k])])
    IN  PixelMax - (diff \div n)

\* ------------------------------------------------------- calculate_fitness
\* CalculateFitness without the test of line 56 and the comparison it guards
CalculateFitnessRightOnly(chromosome, ps, orig, g) ==
    LET correct_positions == [i \in 1..Len(chromosome) |-> chromosome[i] = orig[i]]
        Tile(i, j) == ps[chromosome[i * g + j + 1] + 1]
        Right(i, j) == IF j < g - 1
                       THEN CompareEdges(Tile(i, j), Tile(i, j + 1), "right")
                       ELSE 0
        n == IF g > 0 THEN g * g ELSE 0
        edges == SumSeq([k \in 1..n |-> Right((k - 1) \div g, (k - 1) % g)])
        count == Cardinality({i \in 1..Len(chromosome) : correct_positions[i]})
    IN  [fitness |-> edges + count * PositionBonus * PixelMax,
         correct_positions |-> correct_positions]

CalculateFitness(chromosome, ps, orig, g) ==
    LET correct_positions == [i \in 1..Len(chromosome) |-> chromosome[i] = orig[i]]
        Tile(i, j) == ps[chromosome[i * g + j + 1] + 1]
        Right(i, j) == IF j < g - 1
                       THEN CompareEdges(Tile(i, j), Tile(i, j + 1), "right")
                       ELSE 0
        Bottom(i, j) == IF i < g - 1
                        THEN CompareEdges(Tile(i, j), Tile(i + 1, j), "bottom")
                        ELSE 0
        n == IF g > 0 THEN g * g ELSE 0
        edges == SumSeq([k \in 1..n |->
                    Right((k - 1) \div g, (k - 1) % g) + Bottom((k - 1) \div g, (k - 1) % g)])
        count == Cardinality({i \in 1..Len(chromosome) : correct_positions[i]})
    IN  [fitness |-> edges + count * PositionBonus * PixelMax,
         correct_positions |-> correct_positions]

\* sum(result[1])
CorrectCount(cp) == Cardinality({i \in 1..Len(cp) : cp[i]})

\* np.argmin in the place of np.argmax: the first position of the minimum
ArgMin(f) == CHOOSE i \in 1..Len(f) :
                /\ \A k \in 1..Len(f) : f[k] >= f[i]
                /\ \A k \in 1..(i - 1) : f[k] > f[i]

\* np.argmax: the first position of the maximum
ArgMax(f) == CHOOSE i \in 1..Len(f) :
                /\ \A k \in 1..Len(f) : f[k] <= f[i]
                /\ \A k \in 1..(i - 1) : f[k] < f[i]

\* ---------------------------------------------------- tournament_selection
\* random.sample(list(zip(population, fitnesses)), k): k distinct positions, in
\* the order drawn
Samples(n, k) == {s \in [1..k -> 1..n] : \A a, b \in 1..k : a # b => s[a] # s[b]}

\* max(sample, key=fitness)[0]: the first of the sample with the highest fitness
TournamentSelection(pop, f, sample) == pop[sample[ArgMax([a \in 1..Len(sample) |-> f[sample[a]]])]]

\* ---------------------------------------------------------------- crossover
\* the loops below are recursive functions, so that each pass works on the
\* values its predecessor left

\* lines 72-73: the first position of parent2 from p2_index on whose gene is
\* not in the child; Len(parent2) + 1 when there is none
SkipPresent(filled, p2, p2_index) ==
    LET Skip[p \in 1..(Len(p2) + 1)] ==
            IF p > Len(p2) THEN p
            ELSE IF p2[p] \in Range(filled) THEN Skip[p + 1]
            ELSE p
    IN  Skip[p2_index]

\* SkipPresent with the test made against parent2 instead of the child
SkipPresentInParent(filled, p2, p2_index) ==
    LET Skip[p \in 1..(Len(p2) + 1)] ==
            IF p > Len(p2) THEN p
            ELSE IF p2[p] \in Range(p2) THEN Skip[p + 1]
            ELSE p
    IN  Skip[p2_index]

\* FillLoop with SkipPresentInParent
FillLoopSkipAll[filled \in Seq(Int), p2 \in Seq(Int), i \in Nat, p2_index \in Nat] ==
    IF i > Len(filled) THEN filled
    ELSE IF filled[i] # NoGene THEN FillLoopSkipAll[filled, p2, i + 1, p2_index]
    ELSE LET q == SkipPresentInParent(filled, p2, p2_index)
         IN  IF q > Len(p2) THEN IndexError
             ELSE FillLoopSkipAll[[filled EXCEPT ![i] = p2[q]], p2, i + 1, q + 1]

\* Fill with the test of line 72 made against parent2 instead of the child
FillSkipAll(filled, p2, i, p2_index) == FillLoopSkipAll[filled, p2, i, p2_index]

\* FillLoop without the test of line 72
FillLoopNoSkip[filled \in Seq(Int), p2 \in Seq(Int), i \in Nat, p2_index \in Nat] ==
    IF i > Len(filled) THEN filled
    ELSE IF filled[i] # NoGene THEN FillLoopNoSkip[filled, p2, i + 1, p2_index]
    ELSE IF p2_index > Len(p2) THEN IndexError
    ELSE FillLoopNoSkip[[filled EXCEPT ![i] = p2[p2_index]], p2, i + 1, p2_index + 1]

\* Fill without the test of line 72: parent2's genes are taken as they come
FillNoSkip(filled, p2, i, p2_index) == FillLoopNoSkip[filled, p2, i, p2_index]

\* the loop of lines 70-75, from position i of the child on
FillLoop[filled \in Seq(Int), p2 \in Seq(Int), i \in Nat, p2_index \in Nat] ==
    IF i > Len(filled) THEN filled
    ELSE IF filled[i] # NoGene THEN FillLoop[filled, p2, i + 1, p2_index]
    ELSE LET q == SkipPresent(filled, p2, p2_index)
         IN  IF q > Len(p2) THEN IndexError
             ELSE FillLoop[[filled EXCEPT ![i] = p2[q]], p2, i + 1, q + 1]

\* lines 69-76: the child filled from position i on, parent2 read from p2_index
Fill(filled, p2, i, p2_index) == FillLoop[filled, p2, i, p2_index]

\* Crossover with the slice of line 68 ending before end
CrossoverHalfOpen(p1, p2, start, end) ==
    LET size == Len(p1)
        filled == [i \in 1..size |->
                    IF start + 1 <= i /\ i <= end THEN p1[i] ELSE NoGene]
    IN  Fill(filled, p2, 1, 1)

\* crossover with its cut points start <= end (0-based, as drawn and sorted)
Crossover(p1, p2, start, end) ==
    LET size == Len(p1)
        filled == [i \in 1..size |->
                    IF start + 1 <= i /\ i <= end + 1 THEN p1[i] ELSE NoGene]
    IN  Fill(filled, p2, 1, 1)

\* sorted(random.sample(range(size), 2))
CutPoints(size) == {c \in PyRange(size) \X PyRange(size) : c[1] < c[2]}

\* ------------------------------------------------------------------- mutate
\* draws[i] is -1 when random.random() >= mutation_rate at position i, and
\* otherwise the j drawn by random.randint(0, len(chromosome) - 1)
MutationDraws(n) == {d \in [1..n -> -1..(n - 1)] :
                        Cardinality({i \in 1..n : d[i] # -1}) <= MaxSwaps}

\* MutateLoop with line 82 an assignment of one side only
MutateLoopOverwrite[chromosome \in Seq(Int), draws \in Seq(Int), i \in Nat] ==
    IF i > Len(chromosome) THEN chromosome
    ELSE IF draws[i] = -1 THEN MutateLoopOverwrite[chromosome, draws, i + 1]
    ELSE MutateLoopOverwrite[[chromosome EXCEPT ![i] = chromosome[draws[i] + 1]], draws, i + 1]

\* MutateFrom with line 82 an assignment of one side only
MutateFromOverwrite(chromosome, draws, i) == MutateLoopOverwrite[chromosome, draws, i]

\* the loop of lines 79-82, from position i on
MutateLoop[chromosome \in Seq(Int), draws \in Seq(Int), i \in Nat] ==
    IF i > Len(chromosome) THEN chromosome
    ELSE IF draws[i] = -1 THEN MutateLoop[chromosome, draws, i + 1]
    ELSE LET j == draws[i] + 1
         IN  MutateLoop[[chromosome EXCEPT ![i] = chromosome[j], ![j] = chromosome[i]],
                        draws, i + 1]

\* lines 79-83: the chromosome mutated from position i on
MutateFrom(chromosome, draws, i) == MutateLoop[chromosome, draws, i]

Mutate(chromosome, draws) == MutateFrom(chromosome, draws, 1)

\* ------------------------------------------------------- sorted_population
\* sorted(zip(fitnesses, population), key=fitness, reverse=True): stable, so
\* equal fitnesses keep their order
SortedPopulation(f, pop) ==
    LET n == Len(pop)
        Rank(k) == 1 + Cardinality({m \in 1..n :
                        f[m] > f[k] \/ (f[m] = f[k] /\ m < k)})
    IN  [r \in 1..n |-> pop[CHOOSE k \in 1..n : Rank(k) = r]]

\* s[:k] for k >= 0
Prefix(s, k) == SubSeq(s, 1, IF k < Len(s) THEN k ELSE Len(s))

\* ----------------------------------------------------------- the run
Raise(e) == /\ pc' = "error"
            /\ err' = e

\* a call of solve_puzzle about to be served, its configuration valid or not
Received ==
    /\ grid_size \in GridSizes
    /\ image \in Images(grid_size)
    /\ population_size \in 0..MaxPop
    /\ generations \in -1..MaxGen
    /\ elite_count \in 0..(MaxPop + 1)
    /\ population_size - elite_count <= MaxChildren
    /\ stagnation_threshold \in Thresholds
    /\ pieces = <<>>
    /\ original_sequence = <<>>
    /\ population = <<>>
    /\ fitnesses = <<>>
    /\ correct_counts = <<>>
    /\ best_index = 0
    /\ global_best_chromo = NoChromo
    /\ global_best_fitness = NegInf
    /\ stagnation_counter = 0
    /\ best_solutions = <<>>
    /\ new_population = <<>>
    /\ generation = 0
    /\ pc = "start"
    /\ err = "none"
    /\ xo = <<>>
    /\ assembled_image = <<>>

\* a run of MaxNoEliteGen generations without elite about to enter its first
\* generation, every shuffle of line 86 having returned the tiles in order
Underway ==
    /\ grid_size = 2
    /\ image \in Images(grid_size)
    /\ image[1][2] = MaxStep
    /\ population_size = TournamentK
    /\ generations = MaxNoEliteGen
    /\ elite_count = 0
    /\ stagnation_threshold = 1
    /\ pieces = SplitImage(image, grid_size).pieces
    /\ original_sequence = SplitImage(image, grid_size).original_sequence
    /\ population = [k \in 1..population_size |-> original_sequence]
    /\ fitnesses = <<>>
    /\ correct_counts = <<>>
    /\ best_index = 0
    /\ global_best_chromo = NoChromo
    /\ global_best_fitness = NegInf
    /\ stagnation_counter = 0
    /\ best_solutions = <<>>
    /\ new_population = <<>>
    /\ generation = 0
    /\ pc = "evaluate"
    /\ err = "none"
    /\ xo = <<>>
    /\ assembled_image = <<>>

Init == Received \/ Underway

\* solve_puzzle, line 141: pieces, original_sequence = split_image(img, grid_size)
Split ==
    /\ pc = "start"
    /\ IF grid_size = 0
       THEN /\ Raise("ZeroDivisionError")
            /\ UNCHANGED <<pieces, original_sequence>>
       ELSE /\ pieces' = SplitImage(image, grid_size).pieces
            /\ original_sequence' = SplitImage(image, grid_size).original_sequence
            /\ pc' = "init"
            /\ err' = err
    /\ UNCHANGED <<config, population, fitnesses, correct_counts, best_index,
                   global_best_chromo, global_best_fitness, stagnation_counter,
                   best_solutions, new_population, generation, xo, assembled_image>>

\* LoopContinues with the last index included
LoopContinuesInclusive(g, n) == g <= n

\* line 90: whether range(generations) holds the index g
LoopContinues(g, n) == g < n

\* genetic_algorithm, lines 86-90: the initial population and the first test
\* of the generation loop
Initialize ==
    /\ pc = "init"
    /\ population' \in [1..population_size -> CreateChromosome(pieces)]
    /\ best_solutions' = <<>>
    /\ global_best_chromo' = NoChromo
    /\ global_best_fitness' = NegInf
    /\ stagnation_counter' = 0
    /\ generation' = 0
    /\ pc' = IF LoopContinues(0, generations) THEN "evaluate" ELSE "return"
    /\ UNCHANGED <<config, pieces, original_sequence, fitnesses, correct_counts,
                   best_index, new_population, err, xo, assembled_image>>

\* TrackBest with the increment of line 100 made in both branches
TrackBestAlwaysCount(chromo, f, gbc, gbf, counter) ==
    IF f > gbf
    THEN [chromo |-> chromo, fitness |-> f, counter |-> counter + 1]
    ELSE [chromo |-> gbc, fitness |-> gbf, counter |-> counter + 1]

\* TrackBest with the test of line 96 passed by an equal fitness too
TrackBestOnTie(chromo, f, gbc, gbf, counter) ==
    IF f >= gbf
    THEN [chromo |-> chromo, fitness |-> f, counter |-> 0]
    ELSE [chromo |-> gbc, fitness |-> gbf, counter |-> counter + 1]

\* lines 96-100: the global best and the stagnation counter after a generation
\* whose best chromosome is chromo, of fitness f
TrackBest(chromo, f, gbc, gbf, counter) ==
    IF f > gbf
    THEN [chromo |-> chromo, fitness |-> f, counter |-> 0]
    ELSE [chromo |-> gbc, fitness |-> gbf, counter |-> counter + 1]

\* line 102: the snapshot
Snapshot(gbc, gbf, count) == <<gbc, gbf, count>>

\* Recorded with the snapshot put first
RecordedFirst(solutions, snapshot) == <<snapshot>> \o solutions

\* line 102: best_solutions.append
Recorded(solutions, snapshot) == Append(solutions, snapshot)

\* lines 91-94: fitness_results, as the fitnesses and the correct counts
Evaluation(pop, ps, orig, g) ==
    LET results == [k \in 1..Len(pop) |-> CalculateFitness(pop[k], ps, orig, g)]
    IN  [fitnesses |-> [k \in 1..Len(pop) |-> results[k].fitness],
         correct_counts |-> [k \in 1..Len(pop) |-> CorrectCount(results[k].correct_positions)]]

\* lines 91-102: evaluation, global-best tracking and the snapshot (each \E
\* over a singleton names a value computed once)
Evaluate ==
    /\ pc = "evaluate"
    /\ \E e \in {Evaluation(population, pieces, original_sequence, grid_size)} :
           /\ fitnesses' = e.fitnesses
           /\ correct_counts' = e.correct_counts
           /\ IF Len(e.fitnesses) = 0
              THEN \* np.argmax of an empty sequence
                   /\ Raise("ValueError")
                   /\ UNCHANGED <<best_index, global_best_chromo, global_best_fitness,
                                  stagnation_counter, best_solutions>>
              ELSE \E b \in {ArgMax(e.fitnesses)} :
                   \E t \in {TrackBest(population[b], e.fitnesses[b], global_best_chromo,
                                       global_best_fitness, stagnation_counter)} :
                       /\ best_index' = b
                       /\ global_best_chromo' = t.chromo
                       /\ global_best_fitness' = t.fitness
                       /\ stagnation_counter' = t.counter
                       /\ best_solutions' = Recorded(best_solutions,
                                               Snapshot(t.chromo, t.fitness, e.correct_counts[b]))
                       /\ pc' = "recover"
                       /\ err' = err
    /\ UNCHANGED <<config, pieces, original_sequence, population, new_population,
                   generation, xo, assembled_image>>

\* HalfPopulation rounded up instead of truncated
HalfPopulationUp(n) == (n + 1) \div 2

\* int(population_size * 0.5)
HalfPopulation(n) == n \div 2

\* lines 105-106: the last HalfPopulation slots overwritten by fresh chromosomes
Diversified(pop, fresh) ==
    LET n == Len(pop)
    IN  [k \in 1..n |-> IF k > n - Len(fresh) THEN fresh[n - k + 1] ELSE pop[k]]

\* lines 104-107: stagnation recovery
Recover ==
    /\ pc = "recover"
    /\ IF stagnation_counter >= stagnation_threshold
       THEN /\ \E fresh \in [1..HalfPopulation(population_size) -> CreateChromosome(pieces)] :
                   population' = Diversified(population, fresh)
            /\ stagnation_counter' = 0
       ELSE UNCHANGED <<population, stagnation_counter>>
    /\ pc' = "elitism"
    /\ UNCHANGED <<config, pieces, original_sequence, fitnesses, correct_counts,
                   best_index, global_best_chromo, global_best_fitness,
                   best_solutions, new_population, generation, err, xo, assembled_image>>

\* lines 109-110: the elite of the next population
Elite(f, pop, count) == Prefix(SortedPopulation(f, pop), count)

Elitism ==
    /\ pc = "elitism"
    /\ new_population' = Elite(fitnesses, population, elite_count)
    /\ pc' = "reproduce"
    /\ UNCHANGED <<config, pieces, original_sequence, population, fitnesses,
                   correct_counts, best_index, global_best_chromo,
                   global_best_fitness, stagnation_counter, best_solutions,
                   generation, err, xo, assembled_image>>

\* the chromosomes tournament_selection can return, over every sample
Parents(pop, f) == {TournamentSelection(pop, f, s) : s \in Samples(Len(pop), TournamentK)}

\* line 114: mutate(crossover(parent1, parent2), mutation_rate) for one pair of
\* cut points and one mutation draw; IndexError when crossover fails
Child(p1, p2, cut, draws) ==
    LET crossed == Crossover(p1, p2, cut[1], cut[2])
    IN  IF crossed = IndexError THEN IndexError ELSE Mutate(crossed, draws)

\* the outcomes of line 114 over every pair of cut points and mutation draw
Children(p1, p2) ==
    {Child(p1, p2, cut, draws) : cut \in CutPoints(Len(p1)), draws \in MutationDraws(Len(p1))}

\* lines 112-115: one pass of the reproduction loop
Reproduce ==
    /\ pc = "reproduce"
    /\ Len(new_population) < population_size
    /\ IF Len(population) < TournamentK
       THEN \* random.sample: sample larger than population
            /\ Raise("ValueError")
            /\ UNCHANGED new_population
       ELSE \E parent1, parent2 \in Parents(population, fitnesses) :
               IF Len(parent1) < 2
               THEN \* random.sample(range(size), 2) in crossover
                    /\ Raise("ValueError")
                    /\ UNCHANGED new_population
               ELSE \E child \in Children(parent1, parent2) :
                       IF child = IndexError
                       THEN /\ Raise("IndexError")
                            /\ UNCHANGED new_population
                       ELSE /\ new_population' = Append(new_population, child)
                            /\ UNCHANGED <<pc, err>>
    /\ UNCHANGED <<config, pieces, original_sequence, population, fitnesses,
                   correct_counts, best_index, global_best_chromo,
                   global_best_fitness, stagnation_counter, best_solutions,
                   generation, xo, assembled_image>>

\* Injected without the assignment
InjectedNowhere(newpop, gbc) == newpop

\* Injected as an insertion before position 0
InjectedInsert(newpop, gbc) == <<gbc>> \o newpop

\* Injected with the assignment made to the last position
InjectedLast(newpop, gbc) == [newpop EXCEPT ![Len(newpop)] = gbc]

\* line 116: new_population[0] = global_best_chromo.copy()
Injected(newpop, gbc) == [newpop EXCEPT ![1] = gbc]

\* lines 116-117 and the next test of the generation loop
Inject ==
    /\ pc = "reproduce"
    /\ Len(new_population) >= population_size
    /\ population' = Injected(new_population, global_best_chromo)
    /\ generation' = generation + 1
    /\ pc' = IF LoopContinues(generation + 1, generations) THEN "evaluate" ELSE "return"
    /\ UNCHANGED <<config, pieces, original_sequence, fitnesses, correct_counts,
                   best_index, global_best_chromo, global_best_fitness,
                   stagnation_counter, best_solutions, new_population, err, xo, assembled_image>>

\* line 118: return best_solutions
Return ==
    /\ pc = "return"
    /\ pc' = "done"
    /\ UNCHANGED <<config, pieces, original_sequence, population, fitnesses,
                   correct_counts, best_index, global_best_chromo,
                   global_best_fitness, stagnation_counter, best_solutions,
                   new_population, generation, err, xo, assembled_image>>

Next == \/ Split
        \/ Initialize
        \/ Evaluate
        \/ Recover
        \/ Elitism
        \/ Reproduce
        \/ Inject
        \/ Return

Spec == Init /\ [][Next]_vars

\* the calls of at most MaxFairGen generations
InitFair == Received /\ generations <= MaxFairGen

\* the run never pauses of its own accord: genetic_algorithm is one sequential
\* function with no suspension point, so a step that can be taken is taken
FairSpec == InitFair /\ [][Next]_vars /\ WF_vars(Next)

\* ------------------------------------------------- crossover on its own
\* a call of crossover on any two permutations of a length in 2..MaxLen and
\* any two distinct cut points
InitCrossover ==
    /\ image = <<>>
    /\ grid_size = 0
    /\ population_size = 0
    /\ generations = 0
    /\ elite_count = 0
    /\ stagnation_threshold = 0
    /\ pieces = <<>>
    /\ original_sequence = <<>>
    /\ population = <<>>
    /\ fitnesses = <<>>
    /\ correct_counts = <<>>
    /\ best_index = 0
    /\ global_best_chromo = NoChromo
    /\ global_best_fitness = NegInf
    /\ stagnation_counter = 0
    /\ best_solutions = <<>>
    /\ new_population = <<>>
    /\ generation = 0
    /\ pc = "idle"
    /\ err = "none"
    /\ \E n \in 2..MaxLen : \E p1, p2 \in Perms(n) : \E cut \in CutPoints(n) :
          xo = [parent1 |-> p1, parent2 |-> p2, start |-> cut[1], end |-> cut[2],
                child |-> <<>>, pc |-> "call"]
    /\ assembled_image = <<>>

CrossoverCall ==
    /\ xo.pc = "call"
    /\ xo' = [xo EXCEPT !.child = Crossover(xo.parent1, xo.parent2, xo.start, xo.end),
                        !.pc = "returned"]
    /\ UNCHANGED <<config, pieces, original_sequence, population, fitnesses,
                   correct_counts, best_index, global_best_chromo,
                   global_best_fitness, stagnation_counter, best_solutions,
                   new_population, generation, pc, err, assembled_image>>

NextCrossover == CrossoverCall

SpecCrossover == InitCrossover /\ [][NextCrossover]_vars

\* ------------------------------------------ calculate_fitness on its own
\* c with the genes of positions i and j exchanged
Exchanged(c, i, j) == [c EXCEPT ![i] = c[j], ![j] = c[i]]

\* the chromosomes drawn for a call of calculate_fitness: the tiles in order,
\* and the tiles in order but for two of them
NearReference(orig) ==
    {orig} \cup {Exchanged(orig, i, j) : i, j \in 1..Len(orig)}

\* a call of calculate_fitness on the pieces of an image of a grid size in
\* 1..MaxGrid and a chromosome near the reference
InitFitness ==
    /\ grid_size \in 1..MaxGrid
    /\ image \in Images(grid_size)
    /\ population_size = 1
    /\ generations = 0
    /\ elite_count = 0
    /\ stagnation_threshold = 0
    /\ pieces = SplitImage(image, grid_size).pieces
    /\ original_sequence = SplitImage(image, grid_size).original_sequence
    /\ \E c \in NearReference(original_sequence) : population = <<c>>
    /\ fitnesses = <<>>
    /\ correct_counts = <<>>
    /\ best_index = 0
    /\ global_best_chromo = NoChromo
    /\ global_best_fitness = NegInf
    /\ stagnation_counter = 0
    /\ best_solutions = <<>>
    /\ new_population = <<>>
    /\ generation = 0
    /\ pc = "call"
    /\ err = "none"
    /\ xo = <<>>
    /\ assembled_image = <<>>

\* line 91 for one chromosome: calculate_fitness(chromo, pieces,
\* original_sequence, grid_size)
FitnessCall ==
    /\ pc = "call"
    /\ \E e \in {Evaluation(population, pieces, original_sequence, grid_size)} :
           /\ fitnesses' = e.fitnesses
           /\ correct_counts' = e.correct_counts
    /\ pc' = "returned"
    /\ UNCHANGED <<config, pieces, original_sequence, population, best_index,
                   global_best_chromo, global_best_fitness, stagnation_counter,
                   best_solutions, new_population, generation, err, xo, assembled_image>>

NextFitness == FitnessCall

SpecFitness == InitFitness /\ [][NextFitness]_vars

\* --------------------------------------------- assemble_image on its own
\* AssembleImage with rows and columns exchanged in the index of line 125
AssembleImageTransposed(chromosome, ps, g) ==
    LET piece_width == Len(ps[1][1])
        piece_height == Len(ps[1])
    IN  [r \in 1..(piece_height * g) |-> [c \in 1..(piece_width * g) |->
            LET i == (r - 1) \div piece_height
                j == (c - 1) \div piece_width
            IN  ps[chromosome[j * g + i + 1] + 1][((r - 1) % piece_height) + 1][((c - 1) % piece_width) + 1]]]

\* assemble_image: piece chromosome[i * g + j] pasted at (j * piece_width,
\* i * piece_height) of a new image; the tiles cover it, and pasting an RGB
\* tile into an RGB image changes no pixel
AssembleImage(chromosome, ps, g) ==
    LET piece_width == Len(ps[1][1])
        piece_height == Len(ps[1])
    IN  [r \in 1..(piece_height * g) |-> [c \in 1..(piece_width * g) |->
            LET i == (r - 1) \div piece_height
                j == (c - 1) \div piece_width
            IN  ps[chromosome[i * g + j + 1] + 1][((r - 1) % piece_height) + 1][((c - 1) % piece_width) + 1]]]

\* the images of g x g tiles of w x h pixels whose pixels all differ
DistinctImage(g, w, h) ==
    [r \in 1..(g * h) |-> [c \in 1..(g * w) |-> (r - 1) * g * w + (c - 1)]]

\* a call of split_image on an image of distinguishable cells, to be followed
\* by a call of assemble_image
InitAssemble ==
    /\ grid_size \in 1..MaxGrid
    /\ \E w, h \in 1..MaxTile : image = DistinctImage(grid_size, w, h)
    /\ population_size = 1
    /\ generations = 0
    /\ elite_count = 0
    /\ stagnation_threshold = 0
    /\ pieces = <<>>
    /\ original_sequence = <<>>
    /\ population = <<>>
    /\ fitnesses = <<>>
    /\ correct_counts = <<>>
    /\ best_index = 0
    /\ global_best_chromo = NoChromo
    /\ global_best_fitness = NegInf
    /\ stagnation_counter = 0
    /\ best_solutions = <<>>
    /\ new_population = <<>>
    /\ generation = 0
    /\ pc = "start"
    /\ err = "none"
    /\ xo = <<>>
    /\ assembled_image = <<>>

\* assemble_image(chromosome, pieces, grid_size) for a chromosome near the
\* reference
AssembleCall ==
    /\ pc = "init"
    /\ \E c \in NearReference(original_sequence) :
           /\ population' = <<c>>
           /\ assembled_image' = AssembleImage(c, pieces, grid_size)
    /\ pc' = "assembled"
    /\ UNCHANGED <<config, pieces, original_sequence, fitnesses, correct_counts,
                   best_index, global_best_chromo, global_best_fitness,
                   stagnation_counter, best_solutions, new_population,
                   generation, err, xo>>

NextAssemble == Split \/ AssembleCall

SpecAssemble == InitAssemble /\ [][NextAssemble]_vars

\* ----------------------------------------------------------------- claims
\* the number of positions of a chromosome that hold their own index
OwnCorrectCount(c) == Cardinality({i \in 1..Len(c) : c[i] = i - 1})

\* C1: in every generation every chromosome of the population (initial, elite
\* copy, mutated crossover child, stagnation replacement, injected global
\* best) and every recorded snapshot chromosome is a permutation of 0..N-1
PermutationInvariant ==
    /\ \A k \in 1..Len(population) : IsPermutation(population[k], Len(pieces))
    /\ \A k \in 1..Len(new_population) : IsPermutation(new_population[k], Len(pieces))
    /\ \A k \in 1..Len(best_solutions) : IsPermutation(best_solutions[k][1], Len(pieces))
    /\ global_best_chromo # NoChromo => IsPermutation(global_best_chromo, Len(pieces))

\* a finished run of several generations on four tiles whose last population
\* holds a child that no shuffle drew
PermutationWitness ==
    /\ pc = "done"
    /\ Len(pieces) = 4
    /\ Len(best_solutions) >= 2
    /\ Len(population) = 3
    /\ Inversions(population[3]) > MaxDisorder
    /\ population[3] # population[1]

\* C2: the correct_positions count of every recorded snapshot is the number
\* of positions i at which the snapshot's own chromosome holds i, also in
\* generations without a strict improvement of the global best
SnapshotCountConsistent ==
    \A k \in 1..Len(best_solutions) :
        best_solutions[k][3] = OwnCorrectCount(best_solutions[k][1])

\* a generation after the first, of a run without elite, that did not improve
\* the global best and in which every child kept has a count other than the
\* recorded one
SnapshotCountWitness ==
    /\ pc = "recover"
    /\ generation >= 1
    /\ elite_count = 0
    /\ stagnation_counter >= 1
    /\ Len(best_solutions) = generation + 1
    /\ \A k \in 2..Len(population) :
          correct_counts[k] # best_solutions[Len(best_solutions)][3]

\* C3: at the start of every generation the population holds exactly
\* population_size chromosomes, whatever elite_count is
PopulationSizeInvariant ==
    pc = "evaluate" => Len(population) = population_size

\* the start of the third generation of a run whose elite_count exceeds its
\* population_size
PopulationSizeWitness ==
    /\ pc = "evaluate"
    /\ generation = 2
    /\ population_size >= 2
    /\ elite_count > population_size

\* C4: the global-best fitness values recorded in the snapshots never
\* decrease from one generation to the next
MonotonicBest ==
    \A k \in 1..(Len(best_solutions) - 1) :
        best_solutions[k][2] <= best_solutions[k + 1][2]

\* a run whose recorded fitness rose strictly after the first generation and
\* then stayed
MonotonicBestWitness ==
    /\ Len(best_solutions) >= 3
    /\ best_solutions[1][2] < best_solutions[2][2]
    /\ best_solutions[2][2] = best_solutions[3][2]

\* C5: for two permutations of 0..N-1, N >= 2, and two distinct cut points,
\* crossover returns a permutation of 0..N-1 of length N and never indexes
\* parent2 past its end
CrossoverClosure ==
    (xo # <<>> /\ xo.pc = "returned") =>
        /\ xo.child # IndexError
        /\ IsPermutation(xo.child, Len(xo.parent1))

\* a returned call on two different parents of the largest length whose
\* child is neither parent
CrossoverClosureWitness ==
    /\ xo # <<>>
    /\ xo.pc = "returned"
    /\ Len(xo.parent1) = MaxLen
    /\ xo.parent1 # xo.parent2
    /\ xo.child # xo.parent1
    /\ xo.child # xo.parent2

\* the configurations that the specification rejects
InvalidConfiguration ==
    \/ grid_size <= 0
    \/ population_size < 1
    \/ population_size < elite_count
    \/ generations < 0

\* C6: a run with grid_size <= 0, population_size < 1, population_size <
\* elite_count or generations < 0 is rejected with a ConfigurationError before
\* any chromosome is created, any fitness evaluated or any snapshot recorded
ConfigurationRejected ==
    InvalidConfiguration =>
        /\ population = <<>>
        /\ fitnesses = <<>>
        /\ best_solutions = <<>>
        /\ pc \in {"start", "init", "error"}

\* C7: with population_size 1 or 2, elite_count < population_size and
\* generations >= 1 the run reaches no error state: tournament_selection never
\* samples more candidates than the population holds
TournamentWithinPopulation ==
    (/\ population_size \in {1, 2}
     /\ elite_count < population_size
     /\ generations >= 1
     /\ grid_size >= 1) => pc # "error"

\* C8: with grid_size 1, population_size >= 3, elite_count < population_size
\* and generations >= 1 the run reaches no error state and returns one
\* snapshot per generation, each of chromosome [0]
SingleTileRunCompletes ==
    (/\ grid_size = 1
     /\ population_size >= 3
     /\ elite_count < population_size
     /\ generations >= 1) =>
        /\ pc # "error"
        /\ pc = "done" => /\ Len(best_solutions) = generations
                          /\ \A k \in 1..Len(best_solutions) : best_solutions[k][1] = <<0>>

\* C9: a completed run of G generations returns exactly G snapshots (none for
\* G = 0), and the snapshot recorded in generation k is the global best
\* chromosome and fitness as they stand right after that generation's
\* evaluation
SnapshotPerGeneration ==
    /\ [](pc = "done" /\ generations >= 0 => Len(best_solutions) = generations)
    /\ [][best_solutions' # best_solutions =>
            /\ Len(best_solutions) = generation
            /\ Len(best_solutions') = generation + 1
            /\ SubSeq(best_solutions', 1, generation) = best_solutions
            /\ best_solutions'[generation + 1][1] = global_best_chromo'
            /\ best_solutions'[generation + 1][2] = global_best_fitness']_vars

\* a completed run of the most generations whose global best changed on the way
SnapshotPerGenerationWitness ==
    /\ pc = "done"
    /\ generations = MaxGen
    /\ Len(best_solutions) = MaxGen
    /\ best_solutions[1][1] # best_solutions[MaxGen][1]

\* the configurations of C10
TerminatingConfiguration ==
    /\ grid_size >= 2
    /\ population_size >= 3
    /\ elite_count <= population_size
    /\ generations >= 0

\* C10: for N >= 2, population_size >= 3, 0 <= elite_count <= population_size
\* and generations >= 0 the run ends, after exactly `generations` passes of the
\* generation loop, whatever the random draws: no loop of it ends in an error,
\* and it reaches its return having counted `generations` passes
RunTerminates ==
    /\ [](TerminatingConfiguration => pc # "error")
    /\ TerminatingConfiguration ~> (pc = "done" /\ generation = generations)

\* a completed run of the most generations in which the reproduction loop and
\* crossover ran and left a child that differs from the global best
RunTerminatesWitness ==
    /\ pc = "done"
    /\ TerminatingConfiguration
    /\ elite_count < population_size
    /\ generations = MaxFairGen
    /\ generation = generations
    /\ Len(population) = population_size
    /\ population[population_size] \notin {population[1], global_best_chromo}

\* every pair of tiles adjacent in the reference arrangement has edge score 1
AllEdgesMatch ==
    \A i, j \in PyRange(grid_size) :
        /\ j < grid_size - 1 =>
              CompareEdges(pieces[i * grid_size + j + 1],
                           pieces[i * grid_size + j + 2], "right") = PixelMax
        /\ i < grid_size - 1 =>
              CompareEdges(pieces[i * grid_size + j + 1],
                           pieces[(i + 1) * grid_size + j + 1], "bottom") = PixelMax

\* C11: when every adjacent pair of tiles has edge score 1 and the chromosome
\* is the identity, calculate_fitness returns 2*g*(g-1) + 5*g*g (fitness
\* values are scaled by PixelMax here)
ReferenceFitness ==
    (/\ pc = "returned"
     /\ AllEdgesMatch
     /\ population[1] = original_sequence) =>
        fitnesses[1] = PixelMax * (2 * grid_size * (grid_size - 1)
                                   + PositionBonus * grid_size * grid_size)

\* a returned call on the identity chromosome of the largest grid, all edges
\* matching
ReferenceFitnessWitness ==
    /\ pc = "returned"
    /\ grid_size = MaxGrid
    /\ AllEdgesMatch
    /\ population[1] = original_sequence
    /\ fitnesses[1] = PixelMax * (2 * MaxGrid * (MaxGrid - 1) + PositionBonus * MaxGrid * MaxGrid)

\* C12: split_image followed by assemble_image with the identity chromosome
\* places at every output cell (i, j) the tile extracted from cell (i, j),
\* and so reproduces the resized input pixel for pixel
RoundTrip ==
    (pc = "assembled" /\ population[1] = original_sequence) =>
        LET w == Len(pieces[1][1])
            h == Len(pieces[1])
        IN  /\ assembled_image = Resize(image, w * grid_size, h * grid_size)
            /\ \A i, j \in PyRange(grid_size) :
                   Crop(assembled_image, j * w, i * h, (j + 1) * w, (i + 1) * h)
                       = pieces[i * grid_size + j + 1]

\* the round trip done on the largest grid with the largest tiles
RoundTripWitness ==
    /\ pc = "assembled"
    /\ population[1] = original_sequence
    /\ grid_size = MaxGrid
    /\ Len(pieces[1]) = MaxTile
    /\ Len(pieces[1][1]) = MaxTile
    /\ Len(assembled_image) = MaxGrid * MaxTile

\* the own fitness of a chromosome: what calculate_fitness returns for it now
ActualFitness(c) == CalculateFitness(c, pieces, original_sequence, grid_size).fitness

\* elitism has just run: new_population holds the elite and no child yet
ElitismDone ==
    /\ pc = "reproduce"
    /\ Len(new_population) = (IF elite_count < Len(population)
                               THEN elite_count ELSE Len(population))

\* C13: every chromosome that elitism copies has an own fitness at least that
\* of every chromosome of the population, as diversification left it, that
\* elitism did not copy
EliteByActualFitness ==
    ElitismDone =>
        \A e \in 1..Len(new_population) : \A k \in 1..Len(population) :
            population[k] \notin Range(new_population) =>
                ActualFitness(new_population[e]) >= ActualFitness(population[k])

\* C14: every parent that tournament_selection can return during reproduction
\* is a chromosome of the current population whose own fitness is at least
\* that of the other chromosomes sampled in that tournament
ParentByActualFitness ==
    (/\ pc = "reproduce"
     /\ Len(new_population) < population_size
     /\ Len(population) >= TournamentK) =>
        \A sample \in Samples(Len(population), TournamentK) :
            LET parent == TournamentSelection(population, fitnesses, sample)
            IN  /\ parent \in Range(population)
                /\ \A a \in 1..TournamentK :
                       ActualFitness(parent) >= ActualFitness(population[sample[a]])

\* C15: at the start of every generation after the first, position 0 of the
\* population holds the global-best chromosome, and so the best fitness a
\* generation finds is never below the global-best fitness recorded before it
BestInjected ==
    /\ (pc = "evaluate" /\ generation >= 1 /\ population_size >= 1) =>
          population[1] = global_best_chromo
    /\ (pc = "recover" /\ generation >= 1) =>
          fitnesses[best_index] >= best_solutions[generation][2]

\* the start of a generation after the first in which position 0 held another
\* chromosome before line 116 ran
BestInjectedWitness ==
    /\ pc = "evaluate"
    /\ generation >= 1
    /\ new_population[1] # global_best_chromo
    /\ population[1] = global_best_chromo

\* C16: in each generation, if the generation's best fitness strictly exceeds
\* the global-best fitness, the global best becomes that generation's best
\* chromosome and fitness and the stagnation counter becomes 0; otherwise,
\* also when the two are equal, the global best is left as it was and the
\* counter increases by exactly 1
StrictImprovementUpdate ==
    [][(pc = "evaluate" /\ pc' = "recover") =>
          /\ \A k \in 1..Len(fitnesses') : fitnesses'[k] <= fitnesses'[best_index']
          /\ IF fitnesses'[best_index'] > global_best_fitness
             THEN /\ global_best_chromo' = population[best_index']
                  /\ global_best_fitness' = fitnesses'[best_index']
                  /\ stagnation_counter' = 0
             ELSE /\ global_best_chromo' = global_best_chromo
                  /\ global_best_fitness' = global_best_fitness
                  /\ stagnation_counter' = stagnation_counter + 1]_vars

\* a run in which one generation improved the global best strictly after the
\* first and a later one, its best fitness equal to the global best, did not
StrictImprovementWitness ==
    /\ pc = "recover"
    /\ generation >= 2
    /\ best_solutions[1][2] < best_solutions[2][2]
    /\ fitnesses[best_index] = global_best_fitness
    /\ stagnation_counter >= 1

\* C17: stagnation recovery runs in a generation exactly when the stagnation
\* counter has reached stagnation_threshold; it then replaces the last
\* floor(population_size / 2) slots of the population, by position, leaves
\* the other slots, the global best and the snapshots as they were and sets
\* the counter to 0; when it does not run it changes none of them
RecoveryFrame ==
    [][(pc = "recover" /\ pc' = "elitism") =>
          /\ global_best_chromo' = global_best_chromo
          /\ global_best_fitness' = global_best_fitness
          /\ best_solutions' = best_solutions
          /\ Len(population') = Len(population)
          /\ IF stagnation_counter >= stagnation_threshold
             THEN /\ stagnation_counter' = 0
                  /\ \A k \in 1..Len(population) :
                        IF k <= population_size - (population_size \div 2)
                        THEN population'[k] = population[k]
                        ELSE population'[k] \in CreateChromosome(pieces)
             ELSE /\ stagnation_counter' = stagnation_counter
                  /\ population' = population]_vars

\* recovery has just run in a generation that brought no improvement, and the
\* chromosome of the last slot is not the one the slot's fitness was computed
\* for
RecoveryFrameWitness ==
    /\ pc = "elitism"
    /\ generation >= 1
    /\ population_size = MaxPop
    /\ stagnation_counter = 0
    /\ best_solutions[generation + 1][2] = best_solutions[generation][2]
    /\ ActualFitness(population[population_size]) # fitnesses[population_size]
    /\ ActualFitness(population[population_size - 1]) = fitnesses[population_size - 1]

\* the genes of s that are not in the set taken, in the order of s
Without(s, taken) ==
    LET Keep[k \in 0..Len(s)] ==
            IF k = 0 THEN <<>>
            ELSE IF s[k] \in taken THEN Keep[k - 1]
            ELSE Append(Keep[k - 1], s[k])
    IN  Keep[Len(s)]

\* C18: the child returned by crossover has child[i] = parent1[i] for every
\* start <= i <= end, and its other positions, read left to right, hold the
\* genes of parent2 that are not in that slice, in the order of parent2
CrossoverContent ==
    (xo # <<>> /\ xo.pc = "returned") =>
        LET n == Len(xo.parent1)
            slice == {xo.parent1[i] : i \in (xo.start + 1)..(xo.end + 1)}
        IN  /\ xo.child # IndexError
            /\ Len(xo.child) = n
            /\ \A i \in (xo.start + 1)..(xo.end + 1) : xo.child[i] = xo.parent1[i]
            /\ SubSeq(xo.child, 1, xo.start) \o SubSeq(xo.child, xo.end + 2, n)
                   = Without(xo.parent2, slice)

\* a returned call on two different parents of the largest length whose slice
\* leaves positions to fill on both of its sides
CrossoverContentWitness ==
    /\ xo # <<>>
    /\ xo.pc = "returned"
    /\ Len(xo.parent1) = MaxLen
    /\ xo.start >= 1
    /\ xo.end <= MaxLen - 2
    /\ xo.child \notin {xo.parent1, xo.parent2, IndexError}

\* C19: after the global-best update of every generation the global-best
\* fitness is the fitness of the global-best chromosome and the maximum
\* fitness over all chromosomes evaluated so far (the maximum of the
\* global-best fitness before the generation and the generation's
\* fitnesses), and every snapshot records that pair
BestIsMaximum ==
    /\ [](global_best_chromo # NoChromo =>
             global_best_fitness = ActualFitness(global_best_chromo))
    /\ [](\A k \in 1..Len(best_solutions) :
             best_solutions[k][2] = ActualFitness(best_solutions[k][1]))
    /\ [](pc = "recover" =>
             /\ best_solutions[Len(best_solutions)][1] = global_best_chromo
             /\ best_solutions[Len(best_solutions)][2] = global_best_fitness)
    /\ [][(pc = "evaluate" /\ pc' = "recover") =>
             /\ global_best_fitness' >= global_best_fitness
             /\ \A k \in 1..Len(fitnesses') : global_best_fitness' >= fitnesses'[k]
             /\ \/ global_best_fitness' = global_best_fitness
                \/ \E k \in 1..Len(fitnesses') : global_best_fitness' = fitnesses'[k]]_vars

\* a generation after the first whose evaluation raised the global best above
\* the first snapshot's and found a chromosome below it as well
BestIsMaximumWitness ==
    /\ pc = "recover"
    /\ generation >= 1
    /\ global_best_fitness > best_solutions[1][2]
    /\ stagnation_counter = 0
    /\ \E k \in 1..Len(fitnesses) : fitnesses[k] < global_best_fitness

\* C20: for stagnation_threshold >= 1 the stagnation counter lies in
\* 0..stagnation_threshold - 1 at the end of every generation; recovery
\* fires only with the counter at stagnation_threshold, after that many
\* generations in a row without improvement, and so at most once in
\* stagnation_threshold consecutive generations and never in a generation
\* that strictly improved the global best
CounterRange ==
    /\ []((stagnation_threshold >= 1
            /\ pc \in {"elitism", "reproduce", "evaluate", "return", "done"}) =>
              stagnation_counter \in 0..(stagnation_threshold - 1))
    /\ [][(/\ stagnation_threshold >= 1
            /\ pc = "recover"
            /\ pc' = "elitism"
            /\ stagnation_counter >= stagnation_threshold) =>
              /\ stagnation_counter = stagnation_threshold
              /\ generation >= stagnation_threshold
              /\ \A k \in (generation + 1 - stagnation_threshold)..(generation + 1) :
                    best_solutions[k][2] = global_best_fitness]_vars

\* recovery has just run under the largest threshold drawn, after as many
\* generations without improvement
CounterRangeWitness ==
    /\ pc = "elitism"
    /\ stagnation_threshold = 2
    /\ generation = 2
    /\ stagnation_counter = 0
    /\ best_solutions[3][2] = best_solutions[1][2]

====
